---- MODULE Spec2Model ----
(***************************************************************************)
(* Model of breds/sentence.py: the analysis of one entity-tagged sentence  *)
(* by the Sentence class (entity parsing, span location, pair selection,   *)
(* context windows).                                                       *)
(*                                                                         *)
(* Python indices are kept 0-based (keys of the entity index, loop         *)
(* counter); TLA+ sequences are 1-based, so the token at Python index p is *)
(* text_tokens[p + 1].  An optional value (Python None or a value) is a    *)
(* sequence of length 0 or 1.                                              *)
(***************************************************************************)
EXTENDS Integers, Sequences, FiniteSets, TLC

\* ---------------------------------------------------------------- bounds
\* longest input sentence, counted in items (plain words and entity tags)
MaxItems == 3
\* largest value drawn for min_tokens and max_tokens
MaxTokens == 2
\* largest value drawn for window_size
MaxWindow == 1
\* most records a direct caller of add_relationship accumulates
MaxRels == 1

\* ------------------------------------------------------ optional values
None == <<>>
Some(x) == <<x>>
Get(o) == o[1]

\* ------------------------------------------------------- python helpers
Min(a, b) == IF a < b THEN a ELSE b
Max(a, b) == IF a > b THEN a ELSE b

\* s[a:b] for 0 <= a, 0 <= b
PySlice(s, a, b) ==
  LET hi == Min(b, Len(s))
  IN  IF hi <= a THEN <<>> ELSE [j \in 1..(hi - a) |-> s[a + j]]

\* s[a:] where a may be negative (counted from the end); -0 is 0
PySliceFrom(s, a) ==
  LET lo == IF a < 0 THEN Max(Len(s) + a, 0) ELSE Min(a, Len(s))
  IN  PySlice(s, lo, Len(s))

RECURSIVE Sorted(_)
\* list(sorted(S)) for a finite set of integers
Sorted(S) ==
  IF S = {} THEN <<>>
  ELSE LET m == CHOOSE x \in S : \A y \in S : x <= y
       IN  <<m>> \o Sorted(S \ {m})

RECURSIVE Flatten(_)
Flatten(ss) == IF ss = <<>> THEN <<>> ELSE Head(ss) \o Flatten(Tail(ss))

Range(s) == {s[j] : j \in 1..Len(s)}

\* ------------------------------------------------------------ vocabulary
\* line 9
bad_tokens == {",", "(", ")", ";", "''", "``", "'s", "-", "vs.", "v", "'",
               ":", ".", "--"}
\* line 10: members of NLTK's English stopword list
stopwords == {"the", "in", "and", "of"}
\* line 11
not_valid == bad_tokens \cup stopwords

Types == {"ORG", "PER"}
NoUrl == ""

\* plain words of a sentence
Words == {"acquired", ","}

Tok(w) == [kind |-> "tok", type |-> "", string |-> <<w>>, url |-> NoUrl]
Ann(t, s, u) == [kind |-> "ent", type |-> t, string |-> s, url |-> u]

\* <TYPE>surface text</TYPE>
SimpleAnns ==
  { Ann("ORG", <<"Google">>, NoUrl),
    Ann("PER", <<"Google">>, NoUrl),
    Ann("ORG", <<"YouTube", "Inc.">>, NoUrl),
    Ann("ORG", <<"Inc.">>, NoUrl) }

\* <TYPE url=IDENTIFIER>surface text</TYPE>
LinkedAnns ==
  { Ann("ORG", <<"Google">>, "goog"),
    Ann("PER", <<"Google">>, "yt"),
    Ann("ORG", <<"YouTube", "Inc.">>, "yt"),
    Ann("ORG", <<"Inc.">>, "yt") }

Items(tt) ==
  {Tok(w) : w \in Words} \cup (IF tt = "simple" THEN SimpleAnns ELSE LinkedAnns)

SeqsUpTo(S, n) == UNION {[1..k -> S] : k \in 0..n}

\* ------------------------------------------------ external collaborators
\* nltk.word_tokenize on whitespace-separated words: the period closing the
\* text is split from the last word, any other word is one token
WordTokenize(ws) ==
  IF ws = <<>> THEN <<>>
  ELSE LET last == ws[Len(ws)]
       IN  IF last = "Inc."
           THEN SubSeq(ws, 1, Len(ws) - 1) \o <<"Inc", ".">>
           ELSE ws

\* pos_tagger.tag: one (token, tag) pair per token, in order
PosOf(w) ==
  CASE w = "acquired" -> "VBD"
    [] w = "the" -> "DT"
    [] w = "," -> ","
    [] w = "." -> "."
    [] OTHER -> "NNP"

PosTag(toks) == [j \in 1..Len(toks) |-> <<toks[j], PosOf(toks[j])>>]

\* re.finditer(entities_regex, sentence): the entity tags, left to right
RECURSIVE FindIter(_)
FindIter(s) ==
  IF s = <<>> THEN <<>>
  ELSE (IF Head(s).kind = "ent" THEN <<Head(s)>> ELSE <<>>) \o FindIter(Tail(s))

\* re.sub(clean_regex, "", sentence): the words left once the tags are removed
StripTags(s) == Flatten([j \in 1..Len(s) |-> s[j].string])

\* ---------------------------------------------------- module functions
\* tokenize_entity
tokenize_entity(entity) ==
  LET parts == WordTokenize(entity)
      n == Len(parts)
  IN  IF parts[n] = "."
      THEN SubSeq(parts, 1, n - 2) \o <<parts[n - 1] \o parts[n]>>
      ELSE parts

\* find_locations: the start indices, ascending
find_locations(e_parts, toks) ==
  Sorted({p \in 0..(Len(toks) - 1) :
            PySlice(toks, p, p + Len(e_parts)) = e_parts})

\* ----------------------------------------------------------------- state
VARIABLES
  sentence,        \* the raw tagged sentence: a sequence of items
  tag_type,        \* config.tag_type
  e1_type,         \* self.e1_type
  e2_type,         \* self.e2_type
  max_tokens,      \* self.max_tokens
  min_tokens,      \* self.min_tokens
  window_size,     \* self.window_size
  pc,              \* where the analysis stands
  error,           \* the exception raised, "" while none
  entities,        \* the matches of the entity pattern
  text_tokens,     \* the tokens of the sentence without tags
  locations,       \* the entity index: start index -> entity
  i,               \* loop counter of find_pair_entities
  tagged_text,     \* self.tagged_text, the memoized tagging
  relationships,   \* self.relationships
  rel_args,        \* for each record, the arguments add_relationship got
  last_call,       \* the arguments of the latest add_relationship call
  tokenize_calls,  \* calls of word_tokenize so far
  tag_calls        \* calls of pos_tagger.tag so far

vars == <<sentence, tag_type, e1_type, e2_type, max_tokens, min_tokens,
          window_size, pc, error, entities, text_tokens, locations, i,
          tagged_text, relationships, rel_args, last_call, tokenize_calls,
          tag_calls>>

config == <<sentence, tag_type, e1_type, e2_type, max_tokens, min_tokens,
            window_size>>

\* the attributes __init__ assigns to self (lines 91-99)
SelfAttrs == {"relationships", "tagged_text", "max_tokens", "min_tokens",
              "window_size", "pos_tagger", "config", "e1_type", "e2_type"}

\* keys of the two pattern tables of __init__ (lines 103-110)
EntitiesRegexKeys == {"simple", "linked"}
CleanRegexKeys == {"simple", "clean"}

\* ------------------------------------------------------------- entities
\* EntitySimple / EntityLinked as built at lines 141-151
MakeEntity(a, toks) ==
  LET parts == tokenize_entity(a.string)
  IN  [string |-> a.string, parts |-> parts, type |-> a.type,
       locations |-> find_locations(parts, toks), url |-> a.url]

\* __eq__ of EntitySimple (line 44) and of EntityLinked (line 59)
EntityEq(tt, a, b) ==
  IF tt = "simple" THEN a.string = b.string /\ a.type = b.type
  ELSE a.url = b.url

\* entities_info after the loop of lines 140-152: set.add keeps the element
\* already present when an equal one is added
EntitiesInfo(tt, ents, toks) ==
  LET parsed == [x \in 1..Len(ents) |-> MakeEntity(ents[x], toks)]
      kept == Sorted({x \in 1..Len(ents) :
                \A y \in 1..(x - 1) : ~EntityEq(tt, parsed[y], parsed[x])})
  IN  [j \in 1..Len(kept) |-> parsed[kept[j]]]

\* the orders in which a set of n elements may be iterated
Perms(n) == {f \in [1..n -> 1..n] : \A a, b \in 1..n : f[a] = f[b] => a = b}

\* lines 157-161: locations[start] = e, in the set's iteration order
BuildLocations(info, order) ==
  LET keys == UNION {Range(info[j].locations) : j \in 1..Len(info)}
      lastAt(k) == CHOOSE p \in 1..Len(order) :
                     /\ k \in Range(info[order[p]].locations)
                     /\ \A q \in (p + 1)..Len(order) :
                          k \notin Range(info[order[q]].locations)
  IN  [k \in keys |-> info[order[lastAt(k)]]]

\* line 168
SortedKeys(locs) == Sorted(DOMAIN locs)

\* a variant of E1Index: the first argument is always taken at the first key
E1Index_FirstKey(sk, n) == sk[1]

\* lines 170-171
E1Index(sk, n) == sk[n + 1]
E2Index(sk, n) == sk[n + 2]

\* a variant of FailsDistanceOrType: the expected types taken in the wrong order
FailsDistanceOrType_TypesSwapped(mx, mn, t1, t2, distance, e1, e2) ==
  \/ mx < distance
  \/ distance < mn
  \/ e1.type # t2
  \/ e2.type # t1

\* a variant of FailsDistanceOrType: the lower distance bound is not tested
FailsDistanceOrType_NoMin(mx, mn, t1, t2, distance, e1, e2) ==
  \/ mx < distance
  \/ e1.type # t1
  \/ e2.type # t2

\* the condition of lines 175-176
FailsDistanceOrType(mx, mn, t1, t2, distance, e1, e2) ==
  \/ mx < distance
  \/ distance < mn
  \/ e1.type # t1
  \/ e2.type # t2

\* a variant of SameEntity: the test made for linked tagging only
SameEntity_LinkedOnly(tt, e1, e2) ==
  tt = "linked" /\ e1.url = e2.url

\* the conditions of lines 180-183
SameEntity(tt, e1, e2) ==
  \/ tt = "simple" /\ e1.string = e2.string
  \/ tt = "linked" /\ e1.url = e2.url

\* whether iteration n of the loop of find_pair_entities reaches line 186
Accepts(locs, n) ==
  LET sk == SortedKeys(locs)
      k1 == E1Index(sk, n)
      k2 == E2Index(sk, n)
  IN  /\ ~FailsDistanceOrType(max_tokens, min_tokens, e1_type, e2_type,
                              k2 - k1, locs[k1], locs[k2])
      /\ ~SameEntity(tag_type, locs[k1], locs[k2])

\* ---------------------------------------------------- add_relationship
BeforeWindow(tagged, w, k1) == PySliceFrom(PySlice(tagged, 0, k1), -w)
BetweenWindow(tagged, k1, k2, e1) == PySlice(tagged, k1 + Len(e1.parts), k2)
AfterWindow(tagged, w, k2, e2) ==
  PySlice(PySliceFrom(tagged, k2 + Len(e2.parts)), 0, w)

\* a variant of OnlyNotValid: any() in place of all()
OnlyNotValid_Any(toks, k1, k2, e1) ==
  \E x \in Range(PySlice(toks, k1 + Len(e1.parts), k2)) : x \in not_valid

\* lines 204-205
OnlyNotValid(toks, k1, k2, e1) ==
  \A x \in Range(PySlice(toks, k1 + Len(e1.parts), k2)) : x \in not_valid

Relationship(sent, before, between, after, a1, a2, t1, t2) ==
  [sentence |-> sent, before |-> before, between |-> between,
   after |-> after, e1 |-> a1, e2 |-> a2, e1_type |-> t1, e2_type |-> t2]

\* self.relationships after add_relationship returns
add_relationship(rels, tagged, w, tt, sent, toks, k1, k2, e1, e2) ==
  LET before == BeforeWindow(tagged, w, k1)
      between == BetweenWindow(tagged, k1, k2, e1)
      after == AfterWindow(tagged, w, k2, e2)
  IN  IF OnlyNotValid(toks, k1, k2, e1) THEN rels
      ELSE IF tt = "simple"
           THEN Append(rels, Relationship(sent, before, between, after,
                                          e1.string, e2.string, e1.type, e2.type))
           ELSE Append(rels, Relationship(sent, before, between, after,
                                          e1.url, e2.url, e1.type, e2.type))

\* the arguments of one add_relationship call (line 195)
CallArgs(k1, k2, e1, e2) ==
  [e1_index |-> k1, e2_index |-> k2, e1 |-> e1, e2 |-> e2]

\* a variant of TooFewEntities: the early return taken only without any match
TooFewEntities_None(ents) == Len(ents) < 1

\* line 119
TooFewEntities(ents) == Len(ents) < 2

\* ------------------------------------------------------------ Sentence()
Init ==
  /\ tag_type \in {"simple", "linked"}
  /\ sentence \in SeqsUpTo(Items(tag_type), MaxItems)
  /\ e1_type \in Types
  /\ e2_type \in Types
  /\ min_tokens \in 0..MaxTokens
  /\ max_tokens \in min_tokens..MaxTokens
  /\ window_size \in 0..MaxWindow
  /\ pc = "start"
  /\ error = ""
  /\ entities = <<>>
  /\ text_tokens = <<>>
  /\ locations = None
  /\ i = 0
  /\ tagged_text = None
  /\ relationships = <<>>
  /\ rel_args = <<>>
  /\ last_call = None
  /\ tokenize_calls = 0
  /\ tag_calls = 0

\* lines 114-119: find the entity tags, return when there are fewer than two
Match ==
  /\ pc = "start"
  /\ tag_type \in EntitiesRegexKeys
  /\ entities' = FindIter(sentence)
  /\ pc' = IF TooFewEntities(entities') THEN "done" ELSE "clean"
  /\ UNCHANGED <<config, error, text_tokens, locations, i, tagged_text,
                 relationships, rel_args, last_call,
                 tokenize_calls, tag_calls>>

\* lines 121-123: clean_regexs.get(tag_type) is None for a tag type that is
\* no key of the table, and re.sub(None, ...) raises TypeError
Clean ==
  /\ pc = "clean"
  /\ IF tag_type \in CleanRegexKeys
     THEN /\ text_tokens' = WordTokenize(StripTags(sentence))
          /\ tokenize_calls' = tokenize_calls + 1
          /\ pc' = "extract"
          /\ error' = error
     ELSE /\ pc' = "raised"
          /\ error' = "TypeError"
          /\ UNCHANGED <<text_tokens, tokenize_calls>>
  /\ UNCHANGED <<config, entities, locations, i, tagged_text, relationships,
                 rel_args, last_call, tag_calls>>

\* line 125, extract_entities: one word_tokenize per entity tag
Extract ==
  /\ pc = "extract"
  /\ LET info == EntitiesInfo(tag_type, entities, text_tokens)
     IN  \E order \in Perms(Len(info)) :
           locations' = Some(BuildLocations(info, order))
  /\ tokenize_calls' = tokenize_calls + Len(entities)
  /\ i' = 0
  /\ pc' = "pairs"
  /\ UNCHANGED <<config, error, entities, text_tokens, tagged_text,
                 relationships, rel_args, last_call, tag_calls>>

\* find_pair_entities, one iteration whose pair fails a filter
PairSkipped ==
  /\ pc = "pairs"
  /\ i < Len(SortedKeys(Get(locations))) - 1
  /\ ~Accepts(Get(locations), i)
  /\ i' = i + 1
  /\ UNCHANGED <<config, pc, error, entities, text_tokens, locations,
                 tagged_text, relationships, rel_args, last_call,
                 tokenize_calls, tag_calls>>

\* find_pair_entities, one iteration whose pair passes the filters: the
\* sentence is tagged on first use (lines 186-191), then line 193 reads
\* self.sentence to call add_relationship
PairAccepted ==
  /\ pc = "pairs"
  /\ i < Len(SortedKeys(Get(locations))) - 1
  /\ Accepts(Get(locations), i)
  /\ LET locs == Get(locations)
         sk == SortedKeys(locs)
         k1 == E1Index(sk, i)
         k2 == E2Index(sk, i)
         tagged == IF tagged_text = None THEN Some(PosTag(text_tokens))
                   ELSE tagged_text
     IN  /\ tagged_text' = tagged
         /\ tag_calls' = IF tagged_text = None THEN tag_calls + 1 ELSE tag_calls
         /\ IF "sentence" \in SelfAttrs
            THEN /\ relationships' =
                      add_relationship(relationships, Get(tagged), window_size,
                                       tag_type, sentence, text_tokens,
                                       k1, k2, locs[k1], locs[k2])
                 /\ rel_args' =
                      IF Len(relationships') > Len(relationships)
                      THEN Append(rel_args, CallArgs(k1, k2, locs[k1], locs[k2]))
                      ELSE rel_args
                 /\ last_call' = Some(CallArgs(k1, k2, locs[k1], locs[k2]))
                 /\ i' = i + 1
                 /\ UNCHANGED <<pc, error>>
            ELSE /\ pc' = "raised"
                 /\ error' = "AttributeError"
                 /\ UNCHANGED <<relationships, rel_args, last_call, i>>
  /\ UNCHANGED <<config, entities, text_tokens, locations, tokenize_calls>>

\* find_pair_entities, the loop is over
PairsDone ==
  /\ pc = "pairs"
  /\ i >= Len(SortedKeys(Get(locations))) - 1
  /\ pc' = "done"
  /\ UNCHANGED <<config, error, entities, text_tokens, locations, i,
                 tagged_text, relationships, rel_args, last_call,
                 tokenize_calls, tag_calls>>

Next == Match \/ Clean \/ Extract \/ PairSkipped \/ PairAccepted \/ PairsDone

Spec == Init /\ [][Next]_vars

\* ------------------------------------------- the methods, called directly
\* extract_entities then find_pair_entities (the calls of lines 125-126) on
\* entity matches and tokens the caller supplies, under either tag type
InitMethods ==
  /\ tag_type \in {"simple", "linked"}
  /\ sentence \in SeqsUpTo(Items(tag_type), MaxItems)
  /\ e1_type \in Types
  /\ e2_type \in Types
  /\ min_tokens \in 0..MaxTokens
  /\ max_tokens \in min_tokens..MaxTokens
  /\ window_size \in 0..MaxWindow
  /\ pc = "extract"
  /\ error = ""
  /\ entities = FindIter(sentence)
  /\ text_tokens = WordTokenize(StripTags(sentence))
  /\ locations = None
  /\ i = 0
  /\ tagged_text = None
  /\ relationships = <<>>
  /\ rel_args = <<>>
  /\ last_call = None
  /\ tokenize_calls = 0
  /\ tag_calls = 0

NextMethods == Extract \/ PairSkipped \/ PairAccepted \/ PairsDone

SpecMethods == InitMethods /\ [][NextMethods]_vars

\* add_relationship on a sentence whose entity index is built (line 125) and
\* whose tokens are tagged (line 191), for any two keys of the index
InitAdd ==
  /\ tag_type \in {"simple", "linked"}
  /\ sentence \in SeqsUpTo(Items(tag_type), MaxItems)
  /\ e1_type = "ORG"
  /\ e2_type = "ORG"
  /\ min_tokens = 0
  /\ max_tokens = MaxTokens
  /\ window_size \in 0..MaxWindow
  /\ pc = "add"
  /\ error = ""
  /\ entities = FindIter(sentence)
  /\ text_tokens = WordTokenize(StripTags(sentence))
  /\ LET info == EntitiesInfo(tag_type, entities, text_tokens)
     IN  \E order \in Perms(Len(info)) :
           locations = Some(BuildLocations(info, order))
  /\ i = 0
  /\ tagged_text = Some(PosTag(text_tokens))
  /\ relationships = <<>>
  /\ rel_args = <<>>
  /\ last_call = None
  /\ tokenize_calls = 1 + Len(entities)
  /\ tag_calls = 1

CallAddRelationship ==
  /\ pc = "add"
  /\ Len(relationships) < MaxRels
  /\ LET locs == Get(locations)
     IN  \E k1, k2 \in DOMAIN locs :
           /\ k1 < k2
           /\ relationships' =
                add_relationship(relationships, Get(tagged_text), window_size,
                                 tag_type, sentence, text_tokens,
                                 k1, k2, locs[k1], locs[k2])
           /\ rel_args' =
                IF Len(relationships') > Len(relationships)
                THEN Append(rel_args, CallArgs(k1, k2, locs[k1], locs[k2]))
                ELSE rel_args
           /\ last_call' = Some(CallArgs(k1, k2, locs[k1], locs[k2]))
  /\ UNCHANGED <<config, pc, error, entities, text_tokens, locations, i,
                 tagged_text, tokenize_calls, tag_calls>>

NextAdd == CallAddRelationship

SpecAdd == InitAdd /\ [][NextAdd]_vars

\* ------------------------------------------------------------ the claims
\* the keys of the entity index, ascending (empty while it is not built)
IndexKeys == IF locations = None THEN <<>> ELSE Sorted(DOMAIN Get(locations))

\* the entity at key k of the entity index
EntityAt(k) == Get(locations)[k]

\* the iterations of the pair loop run so far; the one that raised included
Considered ==
  {n \in 0..(Len(IndexKeys) - 2) : n < i \/ (n = i /\ pc = "raised")}

\* a pair was forwarded to the window builder: line 193 was reached
PairForwarded == pc = "raised" /\ error = "AttributeError"
FirstKey == IndexKeys[i + 1]
SecondKey == IndexKeys[i + 2]

WithinDistance(k1, k2) == min_tokens <= k2 - k1 /\ k2 - k1 <= max_tokens
ExpectedTypes(e1, e2) == e1.type = e1_type /\ e2.type = e2_type
SameReferent(e1, e2) ==
  IF tag_type = "simple" THEN e1.string = e2.string ELSE e1.url = e2.url
RawBetween(k1, k2, e1) == PySlice(text_tokens, k1 + Len(e1.parts), k2)
HasValidBetween(k1, k2, e1) ==
  \E x \in Range(RawBetween(k1, k2, e1)) : x \notin not_valid

\* the iterations whose pair passes every filter of the claim C1
PassingPairs ==
  {n \in 0..(Len(IndexKeys) - 2) :
     LET k1 == IndexKeys[n + 1]
         k2 == IndexKeys[n + 2]
     IN  /\ WithinDistance(k1, k2)
         /\ ExpectedTypes(EntityAt(k1), EntityAt(k2))
         /\ ~SameReferent(EntityAt(k1), EntityAt(k2))
         /\ HasValidBetween(k1, k2, EntityAt(k1))}

\* C1: under plain tagging the construction of a Sentence completes without
\* error, and its result list holds exactly one record for each pair of
\* adjacent index keys that passes all the filters, with the surface strings
\* as arguments.
C1_PlainConstructionYieldsPassingPairs ==
  (tag_type = "simple" /\ pc \in {"done", "raised"}) =>
     /\ pc = "done"
     /\ error = ""
     /\ Len(relationships) = Cardinality(PassingPairs)
     /\ \A j \in 1..Len(relationships) :
          /\ relationships[j].e1 = rel_args[j].e1.string
          /\ relationships[j].e2 = rel_args[j].e2.string

\* C2: when the entity pattern matches fewer than two times, the construction
\* stops at once: no record, no entity index, no call of the tokenizer or of
\* the tagger, tagged_text unset, no error.
C2_FewerThanTwoEntitiesStops ==
  (pc # "start" /\ Len(FindIter(sentence)) < 2) =>
     /\ pc = "done"
     /\ error = ""
     /\ relationships = <<>>
     /\ locations = None
     /\ tagged_text = None
     /\ tokenize_calls = 0
     /\ tag_calls = 0

C2_Witness ==
  pc = "done" /\ Len(FindIter(sentence)) = 1 /\ Len(sentence) > 1

\* C3: every pair forwarded to the window builder, and every record of the
\* result list, has min_tokens <= k2 - k1 <= max_tokens, the entity at k1 of
\* type e1_type and the entity at k2 of type e2_type; with max_tokens = 0 no
\* pair is forwarded and no record is produced.
C3_ForwardedPairsWithinDistanceAndTypes ==
  /\ \A j \in 1..Len(rel_args) :
       /\ WithinDistance(rel_args[j].e1_index, rel_args[j].e2_index)
       /\ ExpectedTypes(rel_args[j].e1, rel_args[j].e2)
  /\ PairForwarded =>
       /\ WithinDistance(FirstKey, SecondKey)
       /\ ExpectedTypes(EntityAt(FirstKey), EntityAt(SecondKey))
  /\ max_tokens = 0 =>
       /\ ~PairForwarded
       /\ relationships = <<>>
       /\ tagged_text = None

C3_Witness ==
  /\ PairForwarded
  /\ SecondKey - FirstKey = max_tokens
  /\ min_tokens < max_tokens
  /\ Len(IndexKeys) > 2

\* C4: no pair forwarded to the window builder, and no record of the result
\* list, has the same referent twice: the two surface strings differ under
\* plain tagging and the two URLs differ under linked tagging, also when an
\* entity is located at several token positions.
C4_NoSelfRelation ==
  /\ \A j \in 1..Len(relationships) :
       /\ relationships[j].e1 # relationships[j].e2
       /\ ~SameReferent(rel_args[j].e1, rel_args[j].e2)
  /\ PairForwarded => ~SameReferent(EntityAt(FirstKey), EntityAt(SecondKey))

\* an entity located at two adjacent keys was skipped for being one referent,
\* and a later pair was forwarded
C4_Witness ==
  /\ PairForwarded
  /\ \E n \in 0..(i - 1) :
       LET k1 == IndexKeys[n + 1]
           k2 == IndexKeys[n + 2]
       IN  /\ WithinDistance(k1, k2)
           /\ ExpectedTypes(EntityAt(k1), EntityAt(k2))
           /\ EntityAt(k1) = EntityAt(k2)

\* the raw tokens between the spans of the arguments of call a
RawBetweenOf(a) == RawBetween(a.e1_index, a.e2_index, a.e1)

\* C5: every record of the result list has a raw between range
\* text_tokens[k1 + len(e1.parts) : k2] with at least one token outside the
\* not-valid set, so its between window is not empty and the two argument
\* spans neither touch nor overlap; a candidate whose between range holds
\* only not-valid tokens leaves the result list unchanged.
C5_BetweenHasValidToken ==
  /\ [](/\ Len(rel_args) = Len(relationships)
        /\ \A j \in 1..Len(relationships) :
             /\ \E x \in Range(RawBetweenOf(rel_args[j])) : x \notin not_valid
             /\ relationships[j].between # <<>>
             /\ Len(relationships[j].between) = Len(RawBetweenOf(rel_args[j]))
             /\ rel_args[j].e2_index >
                  rel_args[j].e1_index + Len(rel_args[j].e1.parts))
  /\ [][(/\ last_call' # last_call
         /\ \A x \in Range(RawBetweenOf(Get(last_call'))) : x \in not_valid)
        => relationships' = relationships]_vars

C5_Witness ==
  /\ Len(relationships) = 1
  /\ relationships[1].between = << <<"acquired", "VBD">> >>
  /\ relationships[1].e1 # relationships[1].e2

\* C6: for every window_size >= 0 and every record, the before window has
\* min(window_size, k1) tagged tokens and the after window has
\* min(window_size, len(text_tokens) - (k2 + len(e2.parts))) tagged tokens.
C6_WindowLengths ==
  \A j \in 1..Len(relationships) :
    LET a == rel_args[j]
    IN  /\ Len(relationships[j].before) = Min(window_size, a.e1_index)
        /\ Len(relationships[j].after) =
             Min(window_size,
                 Len(text_tokens) - (a.e2_index + Len(a.e2.parts)))

\* C7: under linked tagging a sentence with two or more entity tags is
\* analysed with the linked patterns, the construction completes without
\* error, and every record carries the entities' URLs as arguments.
C7_LinkedConstructionCompletes ==
  (tag_type = "linked" /\ Len(FindIter(sentence)) >= 2
     /\ pc \in {"done", "raised"}) =>
     /\ pc = "done"
     /\ error = ""
     /\ text_tokens = WordTokenize(StripTags(sentence))
     /\ \A j \in 1..Len(relationships) :
          /\ relationships[j].e1 = rel_args[j].e1.url
          /\ relationships[j].e2 = rel_args[j].e2.url

\* the pairs of keys the loop of find_pair_entities has taken so far
ConsideredPairs ==
  IF locations = None \/ pc \notin {"pairs", "done", "raised"} THEN {}
  ELSE {<<E1Index(SortedKeys(Get(locations)), n),
          E2Index(SortedKeys(Get(locations)), n)>> : n \in Considered}

\* C8 as claimed: pair selection takes consecutive keys only, and every entity
\* takes part in at most two of the pairs taken, also an entity located at
\* several start indices.
C8_EntityInAtMostTwoPairs ==
  locations # None =>
    \A k \in DOMAIN Get(locations) :
      Cardinality({pr \in ConsideredPairs :
                     EntityAt(pr[1]) = EntityAt(k) \/ EntityAt(pr[2]) = EntityAt(k)})
        <= 2

\* C8 as amended: pair selection takes consecutive keys only, and every key of
\* the entity index (every occurrence of an entity) takes part in at most two
\* of the pairs taken: once as second argument, once as first argument.
C8_KeyInAtMostTwoPairs ==
  locations # None =>
    /\ \A pr \in ConsideredPairs :
         /\ pr[1] < pr[2]
         /\ ~\E k \in DOMAIN Get(locations) : pr[1] < k /\ k < pr[2]
    /\ \A k \in DOMAIN Get(locations) :
         /\ Cardinality({pr \in ConsideredPairs : pr[1] = k}) <= 1
         /\ Cardinality({pr \in ConsideredPairs : pr[2] = k}) <= 1

\* an entity located at two keys took part in three pairs
C8_Witness ==
  /\ pc = "done"
  /\ locations # None
  /\ \E k \in DOMAIN Get(locations) :
       Cardinality({pr \in ConsideredPairs :
                      EntityAt(pr[1]) = EntityAt(k) \/ EntityAt(pr[2]) = EntityAt(k)})
         = 3

\* C9: the tagger is called at most once, on the full text_tokens: the memo
\* is set when the first pair passes the distance, type and same-referent
\* filters, it is not set while no pair has passed them, once set it never
\* changes, and the windows of every record are slices of it.
C9_TaggedOnceOnFirstForwardedPair ==
  /\ [](/\ tag_calls <= 1
        /\ (tagged_text = None) = (tag_calls = 0)
        /\ tagged_text # None =>
             /\ tagged_text = Some(PosTag(text_tokens))
             /\ \E n \in Considered :
                  LET k1 == IndexKeys[n + 1]
                      k2 == IndexKeys[n + 2]
                  IN  /\ WithinDistance(k1, k2)
                      /\ ExpectedTypes(EntityAt(k1), EntityAt(k2))
                      /\ ~SameReferent(EntityAt(k1), EntityAt(k2))
        /\ (\E n \in Considered :
              LET k1 == IndexKeys[n + 1]
                  k2 == IndexKeys[n + 2]
              IN  /\ WithinDistance(k1, k2)
                  /\ ExpectedTypes(EntityAt(k1), EntityAt(k2))
                  /\ ~SameReferent(EntityAt(k1), EntityAt(k2)))
             => tagged_text # None
        /\ \A j \in 1..Len(relationships) :
             LET a == rel_args[j]
                 t == Get(tagged_text)
             IN  /\ relationships[j].between =
                      PySlice(t, a.e1_index + Len(a.e1.parts), a.e2_index)
                 /\ \E lo \in 0..a.e1_index :
                      relationships[j].before = PySlice(t, lo, a.e1_index)
                 /\ \E hi \in 0..Len(t) :
                      relationships[j].after =
                        PySlice(t, a.e2_index + Len(a.e2.parts), hi))
  /\ [][tagged_text # None => tagged_text' = tagged_text]_vars

\* the sentence was tagged after earlier pairs had been skipped
C9_Witness ==
  /\ tagged_text # None
  /\ tag_calls = 1
  /\ i >= 1
  /\ Len(Get(tagged_text)) = Len(text_tokens)

\* C10: when two entity tags denote the same entity (same surface string and
\* type for plain, same URL for linked), the entity kept for the index carries
\* the occurrences of both, so every start index at which the tokens of
\* either tag occur is a key of the entity index.
C10_OccurrencesMerged ==
  locations # None =>
    \A x \in 1..Len(entities) :
      Range(find_locations(tokenize_entity(entities[x].string), text_tokens))
        \subseteq DOMAIN Get(locations)

====
